---- MODULE Spec2Model ----
(***************************************************************************)
(* postgres-backuper: a model of the backup orchestration engine.          *)
(*                                                                         *)
(* One process holds the main goroutine (Do, NewBackuper, Run), the exit   *)
(* handler goroutine (registerExitHandler), the cron dispatcher, the Scan  *)
(* invocations (one goroutine per schedule firing, or the main goroutine   *)
(* in one-shot mode) and the polling goroutines of waitForExecToEnd.       *)
(* Calls into the container runtime and the object store are steps whose   *)
(* outcome (success or error) is chosen by the environment.                *)
(***************************************************************************)
EXTENDS Integers, Sequences, FiniteSets, TLC

\* ------------------------------------------------------------------ bounds
MaxContainers == 2      \* containers on the host (a listing returns each once)
MaxScans == 2           \* Scan invocations in one run of the process (Spec)
LifeAttempts == 1       \* containers listed in one run, all Scans together (Spec)
PipeScans == 1          \* Scan invocations in one run (PipelineSpec)
MaxAttempts == 2        \* containers listed in one run (PipelineSpec)
OverlapListing == 1     \* containers one Scan lists (OverlapSpec)
MaxInterrupts == 2      \* interrupt signals the environment sends
MaxEnv == 2             \* entries of a container's declared environment
MaxStr == 3             \* tokens of one environment entry

Containers == 1..MaxContainers
Scans == 1..(IF MaxScans > PipeScans THEN MaxScans ELSE PipeScans)

\* The lists discovery can return: no container is listed twice.
Listings ==
    {q \in UNION {[1..n -> Containers] : n \in 0..MaxContainers} :
        \A i, j \in 1..Len(q) : i # j => q[i] # q[j]}

Range(q) == {q[i] : i \in 1..Len(q)}

VARIABLES
    mode,       \* "do": one-shot flag set; "run": scheduled
    proc,       \* "running", or how the process ended
    mpc,        \* position of the main goroutine in Do / NewBackuper / Run
    minioNil,   \* b.minio is nil (minio.New failed and its error was dropped)
    hpc,        \* position of the exit handler goroutine
    sigs,       \* signals buffered in the sigs channel (capacity 1)
    nsig,       \* interrupts sent by the environment so far
    cronRunning,\* the cron dispatcher is started and not stopped
    registered, \* b.Scan is registered with the dispatcher
    scan,       \* the Scan invocations
    poll,       \* the polling goroutine, channel and exec of each backup attempt
    ctr,        \* name resolution: a container descriptor and what inspecting it gives
    names,      \* name resolution: the names resolved for ctr
    archive,    \* decoding: the stream given to UntarReaderToMem
    mem,        \* decoding: what UntarReaderToMem returned
    upload,     \* upload: the arguments of UploadDump and the clock
    object      \* upload: the PutObject call UploadDump made

\* The variables of the pure functions (name resolution, decoding, object
\* key), which the process specifications leave alone.
pureVars == <<ctr, names, archive, mem, upload, object>>

vars == <<mode, proc, mpc, minioNil, hpc, sigs, nsig, cronRunning, registered,
          scan, poll, ctr, names, archive, mem, upload, object>>

\* A Scan invocation. pc: its position; result, listFailed: what
\* ContainerList returned; attempted: the containers BackupContainer was
\* called for, in call order; and of the backup attempt in progress (or the
\* last one): ops, the operations issued; dumpErr, the step whose error
\* DumpData returned; reader, DumpData's first result; decodeFailed, whether
\* UntarReaderToMem returned an error; waitEnd, the select case that ended
\* waitForExecToEnd ("timeout" is the case that logs "Timed out waiting for
\* exec"). uploaded: the containers whose PutObject succeeded.
IdleScan ==
    [pc |-> "idle", result |-> <<>>, listFailed |-> FALSE, attempted |-> <<>>,
     ops |-> <<>>, dumpErr |-> "none", reader |-> "nil",
     decodeFailed |-> FALSE, waitEnd |-> "none", uploaded |-> {}]

\* The polling goroutine of (scan, position in the listing): pc; ch, the
\* channel c; exec, the dump command in the container; pend, what a blocked
\* send is about to send; alone, whether the file /tmp/dump.sql of the
\* container has been written by this attempt's dump command only, from the
\* start of the command up to the attempt's copy-out.
NoPoll == [pc |-> "none", ch |-> <<>>, exec |-> "none", pend |-> "none",
           alone |-> TRUE]

\* No container under name resolution (the process specifications leave
\* the names BackupContainer resolves out of the state).
NoCtr == [labels |-> <<>>, env |-> <<>>, nameInspectOk |-> FALSE,
          userInspectOk |-> FALSE]
NoNames == [done |-> FALSE, db |-> <<>>, user |-> <<>>]

\* No stream under decoding and no upload under way.
NoArchive == [entries |-> <<>>, end |-> "eof", fromMap |-> FALSE, of |-> <<>>,
              encoded |-> TRUE]
NoMem == [done |-> FALSE]
NoUpload == [appName |-> <<>>]
NoObject == [done |-> FALSE]

\* The pure-function variables while the process runs.
PureIdle ==
    /\ archive = NoArchive
    /\ mem = NoMem
    /\ upload = NoUpload
    /\ object = NoObject

\* The process variables while a pure function is applied on its own.
ProcIdle ==
    /\ mode = "do"
    /\ proc = "running"
    /\ mpc = "new"
    /\ minioNil = FALSE
    /\ hpc = "recv1"
    /\ sigs = 0
    /\ nsig = 0
    /\ cronRunning = FALSE
    /\ registered = FALSE
    /\ scan = [s \in Scans |-> IdleScan]
    /\ poll = [s \in Scans |-> [k \in Containers |-> NoPoll]]

Init ==
    /\ ctr = NoCtr
    /\ names = NoNames
    /\ PureIdle
    /\ mode \in {"do", "run"}
    /\ proc = "running"
    /\ mpc = "new"
    /\ minioNil = FALSE
    /\ hpc = "recv1"
    /\ sigs = 0
    /\ nsig = 0
    /\ cronRunning = FALSE
    /\ registered = FALSE
    /\ scan = [s \in Scans |-> IdleScan]
    /\ poll = [s \in Scans |-> [k \in Containers |-> NoPoll]]

Alive == proc = "running"

\* ----------------------------------------------------- main goroutine (Do)

\* NewBackuper: a Docker client that cannot be built panics; the error of
\* minio.New is dropped and the (nil) client kept.
NewBackuper ==
    /\ Alive /\ mpc = "new"
    /\ \E dockerErr, minioErr \in BOOLEAN :
          IF dockerErr
          THEN proc' = "startup_panic" /\ UNCHANGED <<mpc, minioNil>>
          ELSE minioNil' = minioErr /\ mpc' = "dispatch" /\ UNCHANGED proc
    /\ UNCHANGED pureVars
    /\ UNCHANGED <<mode, hpc, sigs, nsig, cronRunning, registered, scan, poll>>

\* (mutant) a one-shot branch that also starts the dispatcher with the
\* job registered.
DoScanAndSchedule ==
    /\ Alive /\ mpc = "dispatch" /\ mode = "do"
    /\ mpc' = "scan"
    /\ scan' = [scan EXCEPT ![1].pc = "list"]
    /\ cronRunning' = TRUE
    /\ registered' = TRUE
    /\ UNCHANGED pureVars
    /\ UNCHANGED <<mode, proc, minioNil, hpc, sigs, nsig, poll>>

\* Do, one-shot branch: backuper.Scan() on the main goroutine.
DoScan ==
    /\ Alive /\ mpc = "dispatch" /\ mode = "do"
    /\ mpc' = "scan"
    /\ scan' = [scan EXCEPT ![1].pc = "list"]
    /\ UNCHANGED pureVars
    /\ UNCHANGED <<mode, proc, minioNil, hpc, sigs, nsig, cronRunning,
                   registered, poll>>

\* Do returns nil after Scan; main returns and the process ends.
DoReturn ==
    /\ Alive /\ mpc = "scan" /\ scan[1].pc = "end"
    /\ mpc' = "returned"
    /\ proc' = "returned"
    /\ UNCHANGED pureVars
    /\ UNCHANGED <<mode, minioNil, hpc, sigs, nsig, cronRunning, registered,
                   scan, poll>>

\* Run: b.cron.Start()
RunCronStart ==
    /\ Alive /\ mpc = "dispatch" /\ mode = "run"
    /\ cronRunning' = TRUE
    /\ mpc' = "add_func"
    /\ UNCHANGED pureVars
    /\ UNCHANGED <<mode, proc, minioNil, hpc, sigs, nsig, registered, scan, poll>>

\* Run: _, _ = b.cron.AddFunc(schedule, b.Scan); a schedule that does not
\* parse registers nothing and the error is dropped.
RunAddFunc ==
    /\ Alive /\ mpc = "add_func"
    /\ \E ok \in BOOLEAN : registered' = ok
    /\ mpc' = "recv_done"
    /\ UNCHANGED pureVars
    /\ UNCHANGED <<mode, proc, minioNil, hpc, sigs, nsig, cronRunning, scan, poll>>

\* Run: b.cron.Stop() after <-done; jobs already started keep running.
RunCronStop ==
    /\ Alive /\ mpc = "cron_stop"
    /\ cronRunning' = FALSE
    /\ mpc' = "stopped"
    /\ UNCHANGED pureVars
    /\ UNCHANGED <<mode, proc, minioNil, hpc, sigs, nsig, registered, scan, poll>>

\* (mutant) a Run that waits for the Scans in flight before it returns.
RunReturnAfterScans ==
    /\ Alive /\ mpc = "stopped"
    /\ \A s \in Scans : scan[s].pc \in {"idle", "end"}
    /\ mpc' = "returned"
    /\ proc' = "returned"
    /\ UNCHANGED pureVars
    /\ UNCHANGED <<mode, minioNil, hpc, sigs, nsig, cronRunning, registered,
                   scan, poll>>

\* Run logs "Stopped gracefully", closes the Docker client and returns; Do
\* and main return and the process ends, whatever Scan is still in flight.
RunReturn ==
    /\ Alive /\ mpc = "stopped"
    /\ mpc' = "returned"
    /\ proc' = "returned"
    /\ UNCHANGED pureVars
    /\ UNCHANGED <<mode, minioNil, hpc, sigs, nsig, cronRunning, registered,
                   scan, poll>>

\* ------------------------------------------- exit handler and the signals

\* The environment sends an interrupt: signal.Notify delivers it without
\* blocking, so a signal that finds the buffer (capacity 1) full is dropped.
Interrupt ==
    /\ Alive /\ nsig < MaxInterrupts
    /\ nsig' = nsig + 1
    /\ sigs' = IF sigs < 1 THEN sigs + 1 ELSE sigs
    /\ UNCHANGED pureVars
    /\ UNCHANGED <<mode, proc, mpc, minioNil, hpc, cronRunning, registered,
                   scan, poll>>

\* handler: the first <-sigs
HandlerRecvFirst ==
    /\ Alive /\ hpc = "recv1" /\ sigs > 0
    /\ sigs' = sigs - 1
    /\ hpc' = "send_done"
    /\ UNCHANGED pureVars
    /\ UNCHANGED <<mode, proc, mpc, minioNil, nsig, cronRunning, registered,
                   scan, poll>>

\* handler: done <- true, an unbuffered channel: the send completes only
\* together with Run's <-done.
HandlerSendDone ==
    /\ Alive /\ hpc = "send_done" /\ mpc = "recv_done"
    /\ hpc' = "recv2"
    /\ mpc' = "cron_stop"
    /\ UNCHANGED pureVars
    /\ UNCHANGED <<mode, proc, minioNil, sigs, nsig, cronRunning, registered,
                   scan, poll>>

\* handler: the second <-sigs, then os.Exit(1)
HandlerExit ==
    /\ Alive /\ hpc = "recv2" /\ sigs > 0
    /\ sigs' = sigs - 1
    /\ hpc' = "exit"
    /\ proc' = "os_exit"
    /\ UNCHANGED pureVars
    /\ UNCHANGED <<mode, mpc, minioNil, nsig, cronRunning, registered, scan, poll>>

\* ------------------------------------------------------------ cron, Scan

\* (mutant) a dispatcher that keeps firing after Stop.
DispatchingAfterStop == registered

\* The dispatcher fires jobs from Start to Stop, once a job is registered.
Dispatching == cronRunning /\ registered

\* (mutant) a dispatcher that skips a firing while a Scan is running.
CronFireSkipIfRunning(s) ==
    /\ Alive /\ Dispatching
    /\ scan[s].pc = "idle"
    /\ \A r \in Scans : r < s => scan[r].pc # "idle"
    /\ \A r \in Scans : scan[r].pc \in {"idle", "end"}
    /\ scan' = [scan EXCEPT ![s].pc = "list"]
    /\ UNCHANGED pureVars
    /\ UNCHANGED <<mode, proc, mpc, minioNil, hpc, sigs, nsig, cronRunning,
                   registered, poll>>

\* The dispatcher fires the registered job: b.Scan starts on a goroutine of
\* its own, whether or not an earlier Scan is still running.
CronFire(s) ==
    /\ Alive /\ Dispatching
    /\ scan[s].pc = "idle"
    /\ \A r \in Scans : r < s => scan[r].pc # "idle"
    /\ scan' = [scan EXCEPT ![s].pc = "list"]
    /\ UNCHANGED pureVars
    /\ UNCHANGED <<mode, proc, mpc, minioNil, hpc, sigs, nsig, cronRunning,
                   registered, poll>>

\* The containers listed so far, all Scans together (what the budget bounds).
RECURSIVE Listed(_)
Listed(S) ==
    IF S = {} THEN 0
    ELSE LET s == CHOOSE x \in S : TRUE
         IN  Len(scan[s].result) + Listed(S \ {s})

\* The scan s runs: on the main goroutine in one-shot mode, else on a job
\* goroutine.
Cur(s) == scan[s].attempted[Len(scan[s].attempted)]
K(s) == Len(scan[s].attempted)
Did(s, op) == [scan EXCEPT ![s].ops = Append(@, op)]

\* Scan: ContainerList. An error is printed and the loop below still runs
\* over whatever list came back with it (nil from a transport error, the
\* entries decoded so far from a decoding error).
ScanList(s, budget) ==
    /\ Alive /\ scan[s].pc = "list"
    /\ \E err \in BOOLEAN, r \in Listings :
          /\ Listed(Scans) + Len(r) <= budget
          /\ scan' = [scan EXCEPT ![s].pc = "loop", ![s].result = r,
                                  ![s].listFailed = err]
    /\ UNCHANGED pureVars
    /\ UNCHANGED <<mode, proc, mpc, minioNil, hpc, sigs, nsig, cronRunning,
                   registered, poll>>

\* for _, container := range result: the container of the next iteration
NextContainer(s) == scan[s].result[Len(scan[s].attempted) + 1]

\* Where Scan goes on when BackupContainer returns, on success or after
\* "Failed to dump data": back to the range loop.
AfterBackup == "loop"

\* Scan's loop calls BackupContainer, which logs the short id and resolves
\* the application name, the database name and the user.
BackupContainer(s) ==
    /\ Alive /\ scan[s].pc = "loop"
    /\ Len(scan[s].attempted) < Len(scan[s].result)
    /\ scan' = [scan EXCEPT ![s].pc = "create",
                            ![s].attempted = Append(@, NextContainer(s)),
                            ![s].ops = <<"names">>,
                            ![s].dumpErr = "none",
                            ![s].reader = "nil",
                            ![s].decodeFailed = FALSE,
                            ![s].waitEnd = "none"]
    /\ UNCHANGED pureVars
    /\ UNCHANGED <<mode, proc, mpc, minioNil, hpc, sigs, nsig, cronRunning,
                   registered, poll>>

\* Scan: the range is exhausted, "End containers scan".
ScanEnd(s) ==
    /\ Alive /\ scan[s].pc = "loop"
    /\ Len(scan[s].attempted) = Len(scan[s].result)
    /\ scan' = [scan EXCEPT ![s].pc = "end"]
    /\ UNCHANGED pureVars
    /\ UNCHANGED <<mode, proc, mpc, minioNil, hpc, sigs, nsig, cronRunning,
                   registered, poll>>

\* ------------------------------------------------------------- DumpData

\* (mutant) DumpData without its first "if err != nil { return nil, err }".
AfterCreateUnchecked(ok) == "start"

\* DumpData after ContainerExecCreate: an error is returned at once.
AfterCreate(ok) == IF ok THEN "start" ELSE AfterBackup

ExecCreate(s) ==
    /\ Alive /\ scan[s].pc = "create"
    /\ \E ok \in BOOLEAN :
          scan' = [Did(s, "create") EXCEPT
                     ![s].pc = AfterCreate(ok),
                     ![s].dumpErr = IF ok THEN "none" ELSE "create"]
    /\ UNCHANGED pureVars
    /\ UNCHANGED <<mode, proc, mpc, minioNil, hpc, sigs, nsig, cronRunning,
                   registered, poll>>

\* (mutant) DumpData without the call of waitForExecToEnd.
AfterStartNoWait(ok) == IF ok THEN "copy" ELSE "loop"

\* DumpData after ContainerExecStart: an error is returned at once.
AfterStart(ok) == IF ok THEN "wait" ELSE AfterBackup

\* The dump command of attempt (r, j) runs in the container c.
Dumping(r, j, c) ==
    /\ poll[r][j].exec = "running"
    /\ scan[r].attempted[j] = c

\* The attempt (r, j) on the container c has started its dump command and
\* not yet copied the file out.
BeforeCopyOut(r, j, c) ==
    /\ poll[r][j].exec # "none"
    /\ scan[r].attempted[j] = c
    /\ K(r) = j /\ scan[r].pc \in {"wait", "copy"}

\* The dump commands all write the one path /tmp/dump.sql of their
\* container ("pg_dump ... > /tmp/dump.sql"): a command that starts
\* truncates the file under the commands still running and under the
\* attempts that have not copied it out yet.
StartDump(s) ==
    [r \in Scans |-> [j \in Containers |->
        IF r = s /\ j = K(s)
        THEN [pc |-> "poll", ch |-> <<>>, exec |-> "running", pend |-> "none",
              alone |-> ~\E r2 \in Scans, j2 \in Containers :
                           <<r2, j2>> # <<s, K(s)>> /\ Dumping(r2, j2, Cur(s))]
        ELSE IF BeforeCopyOut(r, j, Cur(s))
        THEN [poll[r][j] EXCEPT !.alone = FALSE]
        ELSE poll[r][j]]]

\* ContainerExecStart, and on success the entry of waitForExecToEnd: the
\* channel c (capacity 1) is made and the polling goroutine started.
ExecStart(s) ==
    /\ Alive /\ scan[s].pc = "start"
    /\ \E ok \in BOOLEAN :
          /\ scan' = [Did(s, "start") EXCEPT
                        ![s].pc = AfterStart(ok),
                        ![s].dumpErr = IF ok THEN "none" ELSE "start"]
          /\ poll' = IF AfterStart(ok) = "wait" THEN StartDump(s) ELSE poll
    /\ UNCHANGED pureVars
    /\ UNCHANGED <<mode, proc, mpc, minioNil, hpc, sigs, nsig, cronRunning,
                   registered>>

\* The dump command inside the container ends.
ExecFinish(s, k) ==
    /\ Alive /\ poll[s][k].exec = "running"
    /\ poll' = [poll EXCEPT ![s][k].exec = "finished"]
    /\ UNCHANGED pureVars
    /\ UNCHANGED <<mode, proc, mpc, minioNil, hpc, sigs, nsig, cronRunning,
                   registered, scan>>

\* ----------------------------------------------------- waitForExecToEnd

\* What the polling goroutine does from "if !inspect.Running" on, given the
\* channel as it is then: with Running false it sends and returns (it is
\* blocked in the send while the buffer is full), with Running true it
\* sleeps and polls again.
PollTest(p, seen, tag) ==
    IF seen THEN [p EXCEPT !.pc = "poll", !.pend = "none"]
    ELSE IF Len(p.ch) < 1
    THEN [p EXCEPT !.pc = "done", !.pend = "none", !.ch = Append(@, tag)]
    ELSE [p EXCEPT !.pc = "send_fin", !.pend = tag]

\* What it does after an inspect that failed: if err != nil { c <- true },
\* and then the Running test on what came back with the error.
PollOnError(p, seen) ==
    IF Len(p.ch) < 1
    THEN PollTest([p EXCEPT !.ch = Append(@, "err")], seen, "err")
    ELSE [p EXCEPT !.pc = "send_err", !.pend = IF seen THEN "running" ELSE "zero"]

\* The polling goroutine: one ContainerExecInspect and what follows it up
\* to the next inspect or the next blocking send. On an error inspect is
\* what the client returned with it: the zero value (Running false) or a
\* partly decoded response. The values sent on c are all true; the model
\* tags each with the outcome of the poll behind it ("fin": the poll
\* succeeded and saw the exec not running; "err": the poll failed).
PollInspect(s, k) ==
    /\ Alive /\ poll[s][k].pc = "poll"
    /\ \E err \in BOOLEAN, partial \in BOOLEAN :
          LET isRunning == poll[s][k].exec = "running"
          IN  poll' = [poll EXCEPT ![s][k] =
                         IF err THEN PollOnError(@, partial /\ isRunning)
                         ELSE PollTest(@, isRunning, "fin")]
    /\ UNCHANGED pureVars
    /\ UNCHANGED <<mode, proc, mpc, minioNil, hpc, sigs, nsig, cronRunning,
                   registered, scan>>

\* The send of "if err != nil { c <- true }" that found the buffer full
\* completes once the buffer is free.
PollSendErr(s, k) ==
    /\ Alive /\ poll[s][k].pc = "send_err"
    /\ Len(poll[s][k].ch) < 1
    /\ poll' = [poll EXCEPT ![s][k] =
                  PollTest([@ EXCEPT !.ch = Append(@, "err")],
                           poll[s][k].pend = "running", "err")]
    /\ UNCHANGED pureVars
    /\ UNCHANGED <<mode, proc, mpc, minioNil, hpc, sigs, nsig, cronRunning,
                   registered, scan>>

\* The send of "if !inspect.Running { c <- true; return }" that found the
\* buffer full completes once the buffer is free.
PollSendFin(s, k) ==
    /\ Alive /\ poll[s][k].pc = "send_fin"
    /\ Len(poll[s][k].ch) < 1
    /\ poll' = [poll EXCEPT ![s][k] =
                  [@ EXCEPT !.pc = "done", !.pend = "none",
                            !.ch = Append(@, poll[s][k].pend)]]
    /\ UNCHANGED pureVars
    /\ UNCHANGED <<mode, proc, mpc, minioNil, hpc, sigs, nsig, cronRunning,
                   registered, scan>>

\* (mutant) a timeout handled as a failure of the extraction.
AfterWaitTimeoutFails(cause) == IF cause = "timeout" THEN "loop" ELSE "copy"

\* DumpData after waitForExecToEnd returned: the wait has no result, so the
\* copy-out follows whatever ended it ("fin", "err" or "timeout").
AfterWait(cause) == "copy"

\* select, case <-c
SelectSignal(s) ==
    /\ Alive /\ scan[s].pc = "wait"
    /\ poll[s][K(s)].ch # <<>>
    /\ scan' = [Did(s, "wait") EXCEPT
                  ![s].waitEnd = Head(poll[s][K(s)].ch),
                  ![s].pc = AfterWait(Head(poll[s][K(s)].ch))]
    /\ poll' = [poll EXCEPT ![s][K(s)].ch = Tail(@)]
    /\ UNCHANGED pureVars
    /\ UNCHANGED <<mode, proc, mpc, minioNil, hpc, sigs, nsig, cronRunning,
                   registered>>

\* select, case <-time.After(30 s): "Timed out waiting for exec" is logged.
\* The 30 s may elapse at any point of the polling.
SelectTimeout(s) ==
    /\ Alive /\ scan[s].pc = "wait"
    /\ scan' = [Did(s, "wait") EXCEPT ![s].waitEnd = "timeout",
                                      ![s].pc = AfterWait("timeout")]
    /\ UNCHANGED pureVars
    /\ UNCHANGED <<mode, proc, mpc, minioNil, hpc, sigs, nsig, cronRunning,
                   registered, poll>>

\* DumpData after CopyFromContainer: an error is returned, else the reader.
AfterCopy(ok) == IF ok THEN "decode" ELSE AfterBackup

CopyFromContainer(s) ==
    /\ Alive /\ scan[s].pc = "copy"
    /\ \E ok \in BOOLEAN :
          scan' = [Did(s, "copy") EXCEPT
                     ![s].pc = AfterCopy(ok),
                     ![s].dumpErr = IF ok THEN "none" ELSE "copy",
                     ![s].reader = IF ok THEN "stream" ELSE "nil"]
    /\ UNCHANGED pureVars
    /\ UNCHANGED <<mode, proc, mpc, minioNil, hpc, sigs, nsig, cronRunning,
                   registered, poll>>

\* ------------------------------------------------------------ UploadDump

\* UploadDump after mem, err := UntarReaderToMem(reader): err is overwritten
\* by the next assignment without being read, so PutObject follows.
AfterDecode(ok) == "put"

UntarStream(s) ==
    /\ Alive /\ scan[s].pc = "decode"
    /\ \E ok \in BOOLEAN :
          scan' = [Did(s, "decode") EXCEPT ![s].decodeFailed = ~ok,
                                          ![s].pc = AfterDecode(ok)]
    /\ UNCHANGED pureVars
    /\ UNCHANGED <<mode, proc, mpc, minioNil, hpc, sigs, nsig, cronRunning,
                   registered, poll>>

\* b.minio.PutObject: a method call on the nil client dereferences it and
\* panics; no goroutine recovers, so the process ends. On a client, an
\* error is logged and UploadDump returns like on success.
PutObject(s) ==
    /\ Alive /\ scan[s].pc = "put"
    /\ IF minioNil
       THEN /\ scan' = [Did(s, "put") EXCEPT ![s].pc = "panic"]
            /\ proc' = "panic"
       ELSE /\ \E ok \in BOOLEAN :
                 scan' = [Did(s, "put") EXCEPT
                            ![s].pc = AfterBackup,
                            ![s].uploaded = IF ok THEN @ \cup {Cur(s)} ELSE @]
            /\ UNCHANGED proc
    /\ UNCHANGED pureVars
    /\ UNCHANGED <<mode, mpc, minioNil, hpc, sigs, nsig, cronRunning,
                   registered, poll>>

\* --------------------------------------------------------- specification

ScanStep(s, budget) ==
    \/ ScanList(s, budget)
    \/ BackupContainer(s)
    \/ ScanEnd(s)
    \/ ExecCreate(s)
    \/ ExecStart(s)
    \/ SelectSignal(s)
    \/ SelectTimeout(s)
    \/ CopyFromContainer(s)
    \/ UntarStream(s)
    \/ PutObject(s)

PollStep(s, k) ==
    \/ PollInspect(s, k)
    \/ PollSendErr(s, k)
    \/ PollSendFin(s, k)

\* The whole process: main goroutine, exit handler, interrupts, dispatcher,
\* scans and pollers.
Next ==
    \/ NewBackuper
    \/ DoScan
    \/ DoReturn
    \/ RunCronStart
    \/ RunAddFunc
    \/ RunCronStop
    \/ RunReturn
    \/ Interrupt
    \/ HandlerRecvFirst
    \/ HandlerSendDone
    \/ HandlerExit
    \/ \E s \in Scans : CronFire(s)
    \/ \E s \in Scans : ScanStep(s, LifeAttempts)
    \/ \E s \in Scans, k \in Containers : PollStep(s, k)
    \/ \E s \in Scans, k \in Containers : ExecFinish(s, k)

Spec == Init /\ [][Next]_vars

\* The process while no interrupt is sent. The exit handler then stays in
\* its first <-sigs and Run in <-done, and the steps left out (Interrupt,
\* the handler's, RunCronStop, RunReturn) change only hpc, sigs, nsig, mpc,
\* cronRunning and proc: they end the process or stop the dispatcher and
\* never change scan, poll or minioNil. So every value of <<scan, poll,
\* minioNil, mode>> the process reaches with a given number of scans and
\* listed containers is reached here, within the bounds of this
\* specification.
PipelineNext ==
    \/ NewBackuper
    \/ DoScan
    \/ DoReturn
    \/ RunCronStart
    \/ RunAddFunc
    \/ \E s \in 1..PipeScans : CronFire(s)
    \/ \E s \in 1..PipeScans : ScanStep(s, MaxAttempts)
    \/ \E s \in Scans, k \in Containers : PollStep(s, k)
    \/ \E s \in Scans, k \in Containers : ExecFinish(s, k)

PipelineSpec == Init /\ [][PipelineNext]_vars

\* The scheduled process while no interrupt is sent and the schedule's
\* period is shorter than a dump: the dispatcher fires again while the Scan
\* before waits for its dump command, and the Scans run side by side, each
\* on its job goroutine, each listing up to OverlapListing containers.
\* The polling goroutines and the dump commands are followed while their
\* attempt waits for them. Every behaviour of this specification is one of
\* the process.
OverlapInit == Init /\ mode = "run"

OverlapFire(s) ==
    /\ s > 1 => scan[s - 1].pc = "wait"
    /\ CronFire(s)

Waiting(s) == scan[s].pc = "wait"

OverlapNext ==
    \/ NewBackuper
    \/ RunCronStart
    \/ RunAddFunc
    \/ \E s \in Scans : OverlapFire(s)
    \/ \E s \in Scans : ScanStep(s, Listed(Scans) + OverlapListing)
    \/ \E s \in Scans : Waiting(s) /\ PollStep(s, K(s))
    \/ \E s \in Scans : Waiting(s) /\ ExecFinish(s, K(s))

OverlapSpec == OverlapInit /\ [][OverlapNext]_vars

\* The process under the scheduling the Go runtime guarantees: a goroutine
\* that can run does run, so the main goroutine takes its local steps
\* (building the clients, starting and stopping the dispatcher, returning),
\* the exit handler receives a buffered signal, completes its send on done
\* when Run is receiving, and exits; the timer of time.After fires, so the
\* select of waitForExecToEnd returns; and a Scan whose range loop is
\* exhausted returns. Nothing makes the container
\* runtime or the object store answer a call (every call is made with
\* context.Background()), and nothing makes the dump command end: their
\* steps have no fairness.
MainStep ==
    \/ NewBackuper
    \/ DoScan
    \/ DoReturn
    \/ RunCronStart
    \/ RunAddFunc
    \/ RunCronStop
    \/ RunReturn

HandlerStep ==
    \/ HandlerRecvFirst
    \/ HandlerSendDone
    \/ HandlerExit

FairSpec ==
    /\ Spec
    /\ WF_vars(MainStep)
    /\ WF_vars(HandlerStep)
    /\ \A s \in Scans : WF_vars(SelectTimeout(s))
    /\ \A s \in Scans : WF_vars(ScanEnd(s))

\* ------------------------------------------------------- name resolution
\* getDatabaseName and getDatabaseUser as functions of the container
\* descriptor and of what ContainerInspect returns. A string is a sequence
\* of tokens; "=" is the separator strings.SplitN looks for, the other
\* tokens stand for text without "=".

Tokens == {"POSTGRES_DB", "POSTGRES_USER", "=", "x"}
Strings == UNION {[1..n -> Tokens] : n \in 0..MaxStr}
EnvLists == UNION {[1..n -> Strings] : n \in 0..MaxEnv}
LabelKeys == {"postgres-backup/db-name", "postgres-backup/db-user"}
LabelValues == {<<>>, <<"x">>}
LabelMaps == UNION {[D -> LabelValues] : D \in SUBSET LabelKeys}
Postgres == <<"postgres">>

\* strings.SplitN(value, "=", 2): the text before the first "=" and the
\* text after it, or the whole text alone when it holds no "=".
RECURSIVE SplitN2(_, _)
SplitN2(before, rest) ==
    IF rest = <<>> THEN <<before>>
    ELSE IF Head(rest) = "=" THEN <<before, Tail(rest)>>
    ELSE SplitN2(Append(before, Head(rest)), Tail(rest))

\* (mutant) the loop of getDatabaseName with "continue" for an entry
\* without "=".
RECURSIVE DatabaseNameFromEnvSkipping(_)
DatabaseNameFromEnvSkipping(env) ==
    IF env = <<>> THEN Postgres
    ELSE LET splits == SplitN2(<<>>, Head(env))
         IN  IF Len(splits) # 2 THEN DatabaseNameFromEnvSkipping(Tail(env))
             ELSE IF splits[1] = <<"POSTGRES_DB">> THEN splits[2]
             ELSE DatabaseNameFromEnvSkipping(Tail(env))

\* getDatabaseName, the loop over details.Config.Env: the first entry
\* without "=" returns "postgres", the first entry with key POSTGRES_DB
\* returns its value, and the end of the list returns "postgres".
RECURSIVE DatabaseNameFromEnv(_)
DatabaseNameFromEnv(env) ==
    IF env = <<>> THEN Postgres
    ELSE LET splits == SplitN2(<<>>, Head(env))
         IN  IF Len(splits) # 2 THEN Postgres
             ELSE IF splits[1] = <<"POSTGRES_DB">> THEN splits[2]
             ELSE DatabaseNameFromEnv(Tail(env))

getDatabaseName(c) ==
    IF "postgres-backup/db-name" \in DOMAIN c.labels
    THEN c.labels["postgres-backup/db-name"]
    ELSE IF ~c.nameInspectOk THEN Postgres
    ELSE DatabaseNameFromEnv(c.env)

\* getDatabaseUser, the same loop for POSTGRES_USER.
RECURSIVE DatabaseUserFromEnv(_)
DatabaseUserFromEnv(env) ==
    IF env = <<>> THEN Postgres
    ELSE LET splits == SplitN2(<<>>, Head(env))
         IN  IF Len(splits) # 2 THEN Postgres
             ELSE IF splits[1] = <<"POSTGRES_USER">> THEN splits[2]
             ELSE DatabaseUserFromEnv(Tail(env))

getDatabaseUser(c) ==
    IF "postgres-backup/db-user" \in DOMAIN c.labels
    THEN c.labels["postgres-backup/db-user"]
    ELSE IF ~c.userInspectOk THEN Postgres
    ELSE DatabaseUserFromEnv(c.env)

\* Any container descriptor, any declared environment, and each of the two
\* ContainerInspect calls failing or not.
NameInit ==
    /\ ctr \in [labels : LabelMaps, env : EnvLists,
                 nameInspectOk : BOOLEAN, userInspectOk : BOOLEAN]
    /\ names = NoNames
    /\ PureIdle
    /\ ProcIdle

\* BackupContainer: dbName := b.getDatabaseName(container);
\* user := b.getDatabaseUser(container)
ResolveNames ==
    /\ ~names.done
    /\ names' = [done |-> TRUE, db |-> getDatabaseName(ctr),
                 user |-> getDatabaseUser(ctr)]
    /\ UNCHANGED <<mode, proc, mpc, minioNil, hpc, sigs, nsig, cronRunning,
                   registered, scan, poll, ctr, archive, mem, upload, object>>

NameNext == ResolveNames

NameSpec == NameInit /\ [][NameNext]_vars

\* ------------------------------------------------------ application name
\* getAppName as a function of the container descriptor, called by
\* BackupContainer after it has logged the short identifier.

ShortIdLen == 12        \* container.ID[:12]
MaxNames == 2           \* assigned names of a container

\* Identifiers: the pieces of one identifier, of every length from 0 up,
\* so that some are shorter than the short identifier and some longer.
ExampleId == <<"a", "b", "c", "d", "e", "f", "0", "1", "2", "3", "4", "5",
               "6", "7", "8", "9">>
Ids ==
    {SubSeq(ExampleId, i, j) : i \in 1..(Len(ExampleId) + 1),
                               j \in 0..Len(ExampleId)}

AssignedNames == {<<"/", "s">>, <<"/", "t">>}
NameLists == UNION {[1..n -> AssignedNames] : n \in 0..MaxNames}
AppLabel == "postgres-backup/app-name"
AppLabelValues == {<<>>, <<"s", "h", "o", "p">>}
AppLabelMaps ==
    UNION {[D -> AppLabelValues] : D \in SUBSET {AppLabel, "postgres-backup"}}

\* What a slice expression beyond the length of the string gives: a panic.
SliceOutOfRange == <<"panic: slice bounds out of range">>

\* container.ID[:12]
ShortId(id) ==
    IF Len(id) >= ShortIdLen THEN SubSeq(id, 1, ShortIdLen) ELSE SliceOutOfRange

\* (mutant) the first assigned name tested before the label.
getAppNameNamesFirst(c) ==
    IF Len(c.names) > 0 THEN c.names[1]
    ELSE IF AppLabel \in DOMAIN c.labels THEN c.labels[AppLabel]
    ELSE ShortId(c.id)

getAppName(c) ==
    IF AppLabel \in DOMAIN c.labels THEN c.labels[AppLabel]
    ELSE IF Len(c.names) > 0 THEN c.names[1]
    ELSE ShortId(c.id)

AppNameInit ==
    /\ ctr \in [id : Ids, names : NameLists, labels : AppLabelMaps]
    /\ names = [done |-> FALSE, logged |-> FALSE, app |-> <<>>]
    /\ PureIdle
    /\ ProcIdle

\* BackupContainer: b.log.Println("Starting backup for container",
\* container.ID[:12]): the slice panics on an identifier shorter than 12.
LogShortId ==
    /\ Alive /\ ~names.logged
    /\ IF ShortId(ctr.id) = SliceOutOfRange
       THEN proc' = "panic" /\ UNCHANGED names
       ELSE names' = [names EXCEPT !.logged = TRUE] /\ UNCHANGED proc
    /\ UNCHANGED <<mode, mpc, minioNil, hpc, sigs, nsig, cronRunning,
                   registered, scan, poll, ctr, archive, mem, upload, object>>

\* BackupContainer: appName := getAppName(container)
ResolveAppName ==
    /\ Alive /\ names.logged /\ ~names.done
    /\ names' = [names EXCEPT !.done = TRUE, !.app = getAppName(ctr)]
    /\ UNCHANGED <<mode, proc, mpc, minioNil, hpc, sigs, nsig, cronRunning,
                   registered, scan, poll, ctr, archive, mem, upload, object>>

AppNameNext == LogShortId \/ ResolveAppName

AppNameSpec == AppNameInit /\ [][AppNameNext]_vars

\* ------------------------------------------------------------- decoding
\* UntarReaderToMem as a function of the stream. A stream is the sequence
\* of the archive's entries (type flag, name, content) and how the reading
\* ends after them: by io.EOF or by a read error. A path is a sequence of
\* tokens, "/" being the path separator.

MaxPath == 2            \* tokens of a path
MaxBytes == 1           \* bytes of a file
MaxEntries == 2         \* entries of an archive
MaxFiles == 2           \* files of a file map that is encoded

Paths == UNION {[1..n -> {"/", "d"}] : n \in 1..MaxPath}
Contents == UNION {[1..n -> {0, 1}] : n \in 0..MaxBytes}
TypeFlags == {"reg", "dir", "link"}
Entries == [type : TypeFlags, name : Paths, content : Contents]
EntryLists == UNION {[1..n -> Entries] : n \in 0..MaxEntries}
FileMaps ==
    UNION {[D -> Contents] : D \in {P \in SUBSET Paths : Cardinality(P) <= MaxFiles}}
\* A nil map: it reads as the empty map.
NilMap == <<>>

\* The orders in which the keys of a file map can be written.
Orders(fm) ==
    {q \in [1..Cardinality(DOMAIN fm) -> DOMAIN fm] :
        \A i, j \in DOMAIN q : i # j => q[i] # q[j]}

\* The archive that encodes a file map: one regular-file entry per key,
\* named by the key and holding its bytes.
TarOf(fm, order) ==
    [i \in DOMAIN order |->
        [type |-> "reg", name |-> order[i], content |-> fm[order[i]]]]

\* (mutant) the entry's name taken as the key without trimming.
KeepName(name) == name

\* strings.TrimPrefix(header.Name, "/"): one leading separator is removed.
TrimPrefix(name) ==
    IF name # <<>> /\ Head(name) = "/" THEN Tail(name) ELSE name

\* fileMap[path] = contents
SetFile(fm, path, contents) ==
    [k \in DOMAIN fm \cup {path} |-> IF k = path THEN contents ELSE fm[k]]

\* The loop of UntarReaderToMem over the entries tarReader.Next() returns:
\* a regular file is read whole and stored under its trimmed name, any
\* other entry is passed over.
RECURSIVE UntarEntries(_, _)
UntarEntries(entries, fileMap) ==
    IF entries = <<>> THEN fileMap
    ELSE LET header == Head(entries)
         IN  IF header.type = "reg"
             THEN UntarEntries(Tail(entries),
                               SetFile(fileMap, TrimPrefix(header.name),
                                       header.content))
             ELSE UntarEntries(Tail(entries), fileMap)

\* UntarReaderToMem: (fileMap, nil) at io.EOF, (nil, err) at a read error.
UntarReaderToMem(a) ==
    IF a.end = "eof"
    THEN [done |-> TRUE, err |-> FALSE, fileMap |-> UntarEntries(a.entries, <<>>)]
    ELSE [done |-> TRUE, err |-> TRUE, fileMap |-> NilMap]

\* Either any stream, or a file map still to be encoded.
UntarInit ==
    /\ archive \in
          [entries : EntryLists, end : {"eof", "err"}, fromMap : {FALSE},
           of : {NilMap}, encoded : {TRUE}]
          \cup [entries : {<<>>}, end : {"eof"}, fromMap : {TRUE},
                of : FileMaps, encoded : {FALSE}]
    /\ mem = NoMem
    /\ upload = NoUpload
    /\ object = NoObject
    /\ ctr = NoCtr
    /\ names = NoNames
    /\ ProcIdle

\* The file map is written as an archive, its keys in any order.
EncodeFileMap ==
    /\ ~archive.encoded
    /\ \E order \in Orders(archive.of) :
          archive' = [archive EXCEPT !.entries = TarOf(archive.of, order),
                                     !.encoded = TRUE]
    /\ UNCHANGED <<mode, proc, mpc, minioNil, hpc, sigs, nsig, cronRunning,
                   registered, scan, poll, ctr, names, mem, upload, object>>

\* UploadDump: mem, err := UntarReaderToMem(reader)
Untar ==
    /\ archive.encoded /\ ~mem.done
    /\ mem' = UntarReaderToMem(archive)
    /\ UNCHANGED <<mode, proc, mpc, minioNil, hpc, sigs, nsig, cronRunning,
                   registered, scan, poll, ctr, names, archive, upload, object>>

UntarNext == EncodeFileMap \/ Untar

UntarSpec == UntarInit /\ [][UntarNext]_vars

\* --------------------------------------------------------------- upload
\* UploadDump as a function of the application name, the decoded file map
\* and the clock: the PutObject call it makes. A text is a sequence of
\* one-character tokens.

Digits == <<"0", "1", "2", "3", "4", "5", "6", "7", "8", "9">>

\* time.Now(): wall-clock fields and the zone offset, in minutes.
Times ==
    [year : {2023}, month : {1, 12}, day : {1, 31}, hour : {0, 23},
     minute : {0, 59}, second : {0, 59}, nsec : {0, 1},
     offset : {0, 60, -330}]

AppNames == {<<>>, <<"s", "h", "o", "p">>, <<"/", "s">>}
Buckets == {<<"b">>}
DumpName == <<"d", "u", "m", "p", ".", "s", "q", "l">>
UploadMaps ==
    UNION {[D -> Contents] : D \in SUBSET {DumpName, <<"x">>}}

\* (mutant) a number printed without its leading zero.
NoPad(n) ==
    IF n < 10 THEN <<Digits[n + 1]>>
    ELSE <<Digits[(n \div 10) + 1], Digits[(n % 10) + 1]>>

\* The layout's two-digit fields (01, 02, 15, 04, 05, 07:00).
Pad2(n) == <<Digits[(n \div 10) + 1], Digits[(n % 10) + 1]>>

\* The layout's year (2006).
Pad4(n) == Pad2(n \div 100) \o Pad2(n % 100)

\* The layout's zone (Z07:00): Z for UTC, else the signed offset.
Zone(offset) ==
    IF offset = 0 THEN <<"Z">>
    ELSE LET abs == IF offset < 0 THEN 0 - offset ELSE offset
         IN  <<IF offset < 0 THEN "-" ELSE "+">>
             \o Pad2(abs \div 60) \o <<":">> \o Pad2(abs % 60)

\* now.Format(time.RFC3339), the layout 2006-01-02T15:04:05Z07:00
FormatRFC3339(t) ==
    Pad4(t.year) \o <<"-">> \o Pad2(t.month) \o <<"-">> \o Pad2(t.day)
    \o <<"T">> \o Pad2(t.hour) \o <<":">> \o Pad2(t.minute) \o <<":">>
    \o Pad2(t.second) \o Zone(t.offset)

\* fmt.Sprintf("%s/%s.sql", appName, now)
ObjectKey(appName, now) ==
    appName \o <<"/">> \o now \o <<".", "s", "q", "l">>

\* mem["dump.sql"]: the entry's bytes, nil (no bytes) when there is none.
DumpBytes(fileMap) ==
    IF DumpName \in DOMAIN fileMap THEN fileMap[DumpName] ELSE <<>>

UploadInit ==
    /\ upload \in [appName : AppNames, fileMap : UploadMaps, clock : Times,
                    bucket : Buckets]
    /\ object = [done |-> FALSE, puts |-> <<>>]
    /\ archive = NoArchive
    /\ mem = NoMem
    /\ ctr = NoCtr
    /\ names = NoNames
    /\ ProcIdle

\* UploadDump after the decoding: the timestamp is formatted and PutObject
\* called with the bucket of the options, the key, the bytes of dump.sql and
\* the size -1.
UploadDump ==
    /\ ~object.done
    /\ LET now == FormatRFC3339(upload.clock)
       IN  object' =
             [done |-> TRUE,
              puts |-> Append(object.puts,
                         [bucket |-> upload.bucket,
                          key |-> ObjectKey(upload.appName, now),
                          payload |-> DumpBytes(upload.fileMap),
                          size |-> 0 - 1])]
    /\ UNCHANGED <<mode, proc, mpc, minioNil, hpc, sigs, nsig, cronRunning,
                   registered, scan, poll, ctr, names, archive, mem, upload>>

UploadNext == UploadDump

UploadSpec == UploadInit /\ [][UploadNext]_vars

\* ---------------------------------------------- the exec-attach variant
\* src/main.go: scheduled mode only, a fixed schedule, and a DumpData that
\* attaches to the exec and hands the attached stream to UploadDump. Its
\* NewBackuper, cron start and Scan are those above. A Scan position of
\* this variant is prefixed with "a_".

AttachInit == Init /\ mode = "run"

\* Run: _, _ = b.cron.AddFunc("@every 1m", b.Scan): the schedule parses.
AttachRunAddFunc ==
    /\ Alive /\ mpc = "add_func"
    /\ registered' = TRUE
    /\ mpc' = "recv_done"
    /\ UNCHANGED pureVars
    /\ UNCHANGED <<mode, proc, minioNil, hpc, sigs, nsig, cronRunning, scan, poll>>

\* Scan's loop calls BackupContainer: the short id is logged and the
\* application name resolved.
AttachBackupContainer(s) ==
    /\ Alive /\ scan[s].pc = "loop"
    /\ Len(scan[s].attempted) < Len(scan[s].result)
    /\ scan' = [scan EXCEPT ![s].pc = "a_create",
                            ![s].attempted = Append(@, NextContainer(s)),
                            ![s].ops = <<"names">>,
                            ![s].dumpErr = "none",
                            ![s].reader = "nil"]
    /\ UNCHANGED pureVars
    /\ UNCHANGED <<mode, proc, mpc, minioNil, hpc, sigs, nsig, cronRunning,
                   registered, poll>>

\* DumpData: ContainerExecCreate; an error is returned with the empty
\* response.
AttachExecCreate(s) ==
    /\ Alive /\ scan[s].pc = "a_create"
    /\ \E ok \in BOOLEAN :
          scan' = [Did(s, "create") EXCEPT
                     ![s].pc = IF ok THEN "a_attach" ELSE AfterBackup,
                     ![s].dumpErr = IF ok THEN "none" ELSE "create"]
    /\ UNCHANGED pureVars
    /\ UNCHANGED <<mode, proc, mpc, minioNil, hpc, sigs, nsig, cronRunning,
                   registered, poll>>

\* DumpData after ContainerExecAttach: on an error it returns
\* types.HijackedResponse{}, nil, so BackupContainer sees no error and
\* calls UploadDump, as after a successful attach.
AfterAttach(ok) == [pc |-> "a_upload", dumpErr |-> "none"]

\* DumpData: ContainerExecAttach; the response holds the attached stream,
\* or is the empty response (a nil Reader) after an error.
ExecAttach(s) ==
    /\ Alive /\ scan[s].pc = "a_attach"
    /\ \E ok \in BOOLEAN :
          scan' = [Did(s, IF ok THEN "attach" ELSE "attach_failed") EXCEPT
                     ![s].pc = AfterAttach(ok).pc,
                     ![s].dumpErr = AfterAttach(ok).dumpErr,
                     ![s].reader = IF ok THEN "stream" ELSE "nil"]
    /\ UNCHANGED pureVars
    /\ UNCHANGED <<mode, proc, mpc, minioNil, hpc, sigs, nsig, cronRunning,
                   registered, poll>>

\* UploadDump: reader.ReadBytes(0x1d) skips the first group of the stream;
\* on a nil *bufio.Reader it dereferences nil and panics, and nothing
\* recovers on the job goroutine.
AttachReadBytes(s) ==
    /\ Alive /\ scan[s].pc = "a_upload"
    /\ IF scan[s].reader = "nil"
       THEN /\ scan' = [Did(s, "upload") EXCEPT ![s].pc = "panic"]
            /\ proc' = "panic"
       ELSE /\ scan' = [Did(s, "upload") EXCEPT ![s].pc = "a_put"]
            /\ UNCHANGED proc
    /\ UNCHANGED pureVars
    /\ UNCHANGED <<mode, mpc, minioNil, hpc, sigs, nsig, cronRunning,
                   registered, poll>>

\* UploadDump: b.minio.PutObject(ctx, "backups", key, reader, -1, ...)
AttachPutObject(s) ==
    /\ Alive /\ scan[s].pc = "a_put"
    /\ IF minioNil
       THEN /\ scan' = [Did(s, "put") EXCEPT ![s].pc = "panic"]
            /\ proc' = "panic"
       ELSE /\ \E ok \in BOOLEAN :
                 scan' = [Did(s, "put") EXCEPT
                            ![s].pc = AfterBackup,
                            ![s].uploaded = IF ok THEN @ \cup {Cur(s)} ELSE @]
            /\ UNCHANGED proc
    /\ UNCHANGED pureVars
    /\ UNCHANGED <<mode, mpc, minioNil, hpc, sigs, nsig, cronRunning,
                   registered, poll>>

AttachScanStep(s) ==
    \/ ScanList(s, MaxAttempts)
    \/ AttachBackupContainer(s)
    \/ ScanEnd(s)
    \/ AttachExecCreate(s)
    \/ ExecAttach(s)
    \/ AttachReadBytes(s)
    \/ AttachPutObject(s)

\* The variant's process while no interrupt is sent.
AttachNext ==
    \/ NewBackuper
    \/ RunCronStart
    \/ AttachRunAddFunc
    \/ \E s \in Scans : CronFire(s)
    \/ \E s \in Scans : AttachScanStep(s)

AttachSpec == AttachInit /\ [][AttachNext]_vars

\* ======================================================================
\* Claims
\* ======================================================================

IsPrefix(p, q) == Len(p) <= Len(q) /\ \A i \in 1..Len(p) : p[i] = q[i]

\* C1 (as claimed): Scan calls BackupContainer once for every container of
\* the listing, in the listing's order, whatever the outcome of the
\* pipelines before it: the calls made are always a prefix of the listing,
\* and a Scan that has stopped, by reaching its end or because the pipeline
\* of one of its containers failed, has called it for all of them.
C1_EveryContainerAttempted ==
    \A s \in Scans :
        /\ IsPrefix(scan[s].attempted, scan[s].result)
        /\ scan[s].pc \in {"end", "panic"} => scan[s].attempted = scan[s].result

\* C2 (as claimed): when UntarReaderToMem fails on the dump stream, the
\* Uploader performs no put for that backup attempt.
C2_NoPutAfterDecodeFailure ==
    \A s \in Scans :
        scan[s].decodeFailed => "put" \notin Range(scan[s].ops)

\* C3: when exec creation, exec start or the copy-out fails, DumpData
\* returns the failure and no stream, no later step of the extraction has
\* run (no start after a failed create; no polling goroutine, wait or copy
\* after a failed start) and BackupContainer returns to Scan's loop without
\* decode or put.
C3_DumpFailureShortCircuits ==
    \A s \in Scans :
        LET a == scan[s]
        IN  /\ a.dumpErr = "create" => a.ops = <<"names", "create">>
            /\ a.dumpErr = "start" => a.ops = <<"names", "create", "start">>
            /\ a.dumpErr = "copy" =>
                  a.ops = <<"names", "create", "start", "wait", "copy">>
            /\ a.dumpErr \in {"create", "start"} => poll[s][K(s)].pc = "none"
            /\ a.dumpErr # "none" => a.reader = "nil" /\ a.pc \in {"loop", "end"}
            /\ a.pc \in {"decode", "put"} => a.reader = "stream"

\* C3, witness: an exec start failed, and the scan went on to its end.
C3_Witness ==
    \E s \in Scans : scan[s].dumpErr = "start" /\ scan[s].pc = "end"

\* C5 (as claimed): the completion signal is sent only after a poll that
\* succeeded and saw the exec not running: no value sent on c comes from a
\* failed poll, and no wait was ended by one.
C5_SignalOnlyWhenNotRunning ==
    \A s \in Scans :
        /\ scan[s].waitEnd # "err"
        /\ \A k \in Containers :
              \A i \in 1..Len(poll[s][k].ch) : poll[s][k].ch[i] = "fin"

\* C9 (as claimed): when listing containers fails, BackupContainer is
\* invoked for no container in that cycle.
C9_NoBackupAfterListFailure ==
    \A s \in Scans : scan[s].listFailed => scan[s].attempted = <<>>

\* The step that ends a wait: by the timeout case when nothing was sent on
\* c; and after the timeout case DumpData is at the copy-out, without error.
WaitEndsRight ==
    \A s \in Scans :
        (scan[s].pc = "wait" /\ scan'[s].pc # "wait") =>
            /\ poll[s][K(s)].ch = <<>> => scan'[s].waitEnd = "timeout"
            /\ scan'[s].waitEnd = "timeout" =>
                  scan'[s].pc = "copy" /\ scan'[s].dumpErr = "none"

\* C4: a wait never hangs: the select of waitForExecToEnd returns (or the
\* process has ended); when the invocation never reported finished and no
\* poll failed (nothing was sent on c) the wait ends by the timeout case,
\* which logs the timeout; the timeout is no error of DumpData, which goes
\* on to the copy-out.
C4_TimeoutEndsWait ==
    /\ \A s \in Scans :
          (scan[s].pc = "wait") ~> (scan[s].pc # "wait" \/ ~Alive)
    /\ [][WaitEndsRight]_vars

\* C4, witness: the wait timed out while the dump command was still
\* running and nothing had been sent on c, and DumpData returned a stream.
C4_Witness ==
    \E s \in Scans :
        /\ scan[s].waitEnd = "timeout" /\ scan[s].reader = "stream"
        /\ poll[s][K(s)].exec = "running" /\ poll[s][K(s)].ch = <<>>

\* C6 (as claimed): nothing ends the process but a Docker client that
\* cannot be built at startup and a second interrupt (and the return of Do
\* when the work is over).
C6_ProcessEndsOnlyAtStartupOrInterrupt ==
    proc \in {"running", "startup_panic", "os_exit", "returned"}

\* C7 (as claimed): in every run mode, once the handler has taken the first
\* interrupt, a second interrupt delivered to it ends the process.
C7_SecondInterruptTerminates ==
    (hpc # "recv1" /\ sigs > 0) ~> ~Alive

\* After b.cron.Stop() no Scan starts.
NoScanStartsAfterStop ==
    mpc \in {"stopped", "returned"} =>
        \A s \in Scans : scan[s].pc = "idle" => scan'[s].pc = "idle"

\* C8: in scheduled mode a first interrupt leads to Run stopping the
\* dispatcher and returning, unless the process is ended before Run gets
\* there (by the second interrupt or a panic); when Run has returned the
\* dispatcher is stopped, and once it is stopped no Scan starts.
C8_FirstInterruptStopsRun ==
    /\ (mode = "run" /\ nsig >= 1) ~>
          (mpc = "returned" \/ proc \in {"os_exit", "panic", "startup_panic"})
    /\ [](mode = "run" /\ mpc \in {"stopped", "returned"} => ~cronRunning)
    /\ [][NoScanStartsAfterStop]_vars

\* C8, witness: Run returned after an interrupt, a Scan having started
\* before and another not.
C8_Witness ==
    /\ mode = "run" /\ nsig >= 1 /\ mpc = "returned" /\ proc = "returned"
    /\ \E s, r \in Scans : scan[s].pc # "idle" /\ scan[r].pc = "idle"

\* An environment entry with a "=", its key and its value.
HasEq(e) == \E i \in 1..Len(e) : e[i] = "="
FirstEq(e) == CHOOSE i \in 1..Len(e) : e[i] = "=" /\ \A j \in 1..(i - 1) : e[j] # "="
KeyOf(e) == SubSeq(e, 1, FirstEq(e) - 1)
ValueOf(e) == SubSeq(e, FirstEq(e) + 1, Len(e))
Declares(e, key) == HasEq(e) /\ KeyOf(e) = key

\* The entry the loop stops at with a value: it declares the key, and the
\* entries before it all hold a "=" and declare other keys.
Found(env, key, i) ==
    /\ Declares(env[i], key)
    /\ \A j \in 1..(i - 1) : HasEq(env[j]) /\ ~Declares(env[j], key)

Resolved(labels, label, ok, env, key) ==
    IF label \in DOMAIN labels THEN labels[label]
    ELSE IF ok /\ \E i \in 1..Len(env) : Found(env, key, i)
    THEN ValueOf(env[CHOOSE i \in 1..Len(env) : Found(env, key, i)])
    ELSE Postgres

\* C10 (amended): the override label's value when the label is present;
\* otherwise, when inspection succeeds, the value of the first entry that
\* declares POSTGRES_DB (resp. POSTGRES_USER), provided every entry before
\* it holds a "="; otherwise "postgres". So an inspection failure, a
\* malformed entry and a list without the key give "postgres" or a value,
\* never a failure.
C10_ResolutionOrder ==
    names.done =>
        /\ names.db = Resolved(ctr.labels, "postgres-backup/db-name",
                               ctr.nameInspectOk, ctr.env, <<"POSTGRES_DB">>)
        /\ names.user = Resolved(ctr.labels, "postgres-backup/db-user",
                                 ctr.userInspectOk, ctr.env, <<"POSTGRES_USER">>)

\* C10, witness: no label, inspection succeeds, and a malformed entry
\* stands before the entry that declares POSTGRES_DB: "postgres".
C10_Witness ==
    /\ names.done /\ names.db = Postgres
    /\ DOMAIN ctr.labels = {} /\ ctr.nameInspectOk
    /\ ctr.env = << <<"x">>, <<"POSTGRES_DB", "=", "x">> >>

\* C10 (as claimed): without the label, when inspection succeeds and the
\* environment declares the key, the result is the value of an entry that
\* declares it.
C10_DeclaredValueWins ==
    (/\ names.done
     /\ "postgres-backup/db-name" \notin DOMAIN ctr.labels
     /\ ctr.nameInspectOk
     /\ \E i \in 1..Len(ctr.env) : Declares(ctr.env[i], <<"POSTGRES_DB">>))
    => \E i \in 1..Len(ctr.env) :
          /\ Declares(ctr.env[i], <<"POSTGRES_DB">>)
          /\ names.db = ValueOf(ctr.env[i])

Stripped(name) ==
    IF Len(name) > 0 /\ name[1] = "/" THEN SubSeq(name, 2, Len(name)) ELSE name

\* The regular-file entries of an archive, by position.
Regular(entries) == {i \in DOMAIN entries : entries[i].type = "reg"}

\* The last regular-file entry stored under a key.
LastFor(entries, key) ==
    CHOOSE i \in Regular(entries) :
        /\ Stripped(entries[i].name) = key
        /\ \A j \in Regular(entries) :
              Stripped(entries[j].name) = key => j <= i

\* C12 (amended): decoding the archive that encodes a file map reproduces
\* the map when no key of the map begins with the path separator; for
\* every archive read to its end the decoding succeeds and the result
\* holds exactly the trimmed names of the regular-file entries, each mapped
\* to the full content of the last regular entry of that trimmed name;
\* other entries add nothing.
C12_DecodeRoundTrip ==
    mem.done =>
        /\ (archive.fromMap
            /\ \A k \in DOMAIN archive.of : Head(k) # "/") =>
              ~mem.err /\ mem.fileMap = archive.of
        /\ archive.end = "eof" =>
              /\ ~mem.err
              /\ DOMAIN mem.fileMap =
                    {Stripped(archive.entries[i].name) :
                        i \in Regular(archive.entries)}
              /\ \A k \in DOMAIN mem.fileMap :
                    mem.fileMap[k] =
                        archive.entries[LastFor(archive.entries, k)].content

\* C12, witness: an encoded file map of two files was decoded to itself,
\* and so was an archive with a directory entry to its one regular file.
C12_Witness ==
    /\ mem.done /\ ~mem.err
    /\ \/ archive.fromMap /\ Cardinality(DOMAIN archive.of) = 2
          /\ mem.fileMap = archive.of
       \/ ~archive.fromMap /\ Len(archive.entries) = 2
          /\ archive.entries[1].type = "dir"
          /\ archive.entries[2].type = "reg"
          /\ DOMAIN mem.fileMap = {Stripped(archive.entries[2].name)}

\* C12 (as claimed): decoding the archive that encodes any file map
\* reproduces the map, and every regular-file entry of a well-formed
\* archive is in the result under its trimmed name with its content.
C12_RoundTripEveryMap ==
    mem.done =>
        /\ archive.fromMap => ~mem.err /\ mem.fileMap = archive.of
        /\ archive.end = "eof" =>
              \A i \in Regular(archive.entries) :
                  /\ Stripped(archive.entries[i].name) \in DOMAIN mem.fileMap
                  /\ mem.fileMap[Stripped(archive.entries[i].name)] =
                        archive.entries[i].content

\* The number a text of digits stands for.
DigitOf(ch) == CHOOSE n \in 0..9 : Digits[n + 1] = ch
RECURSIVE NumberOf(_)
NumberOf(text) ==
    IF text = <<>> THEN 0
    ELSE 10 * NumberOf(SubSeq(text, 1, Len(text) - 1)) + DigitOf(text[Len(text)])

\* An RFC 3339 date-time of the clock t: yyyy-mm-ddThh:mm:ss, then Z for
\* UTC or the offset as +hh:mm or -hh:mm.
IsRFC3339Of(stamp, t) ==
    /\ Len(stamp) = IF t.offset = 0 THEN 20 ELSE 25
    /\ NumberOf(SubSeq(stamp, 1, 4)) = t.year /\ stamp[5] = "-"
    /\ NumberOf(SubSeq(stamp, 6, 7)) = t.month /\ stamp[8] = "-"
    /\ NumberOf(SubSeq(stamp, 9, 10)) = t.day /\ stamp[11] = "T"
    /\ NumberOf(SubSeq(stamp, 12, 13)) = t.hour /\ stamp[14] = ":"
    /\ NumberOf(SubSeq(stamp, 15, 16)) = t.minute /\ stamp[17] = ":"
    /\ NumberOf(SubSeq(stamp, 18, 19)) = t.second
    /\ IF t.offset = 0 THEN stamp[20] = "Z"
       ELSE /\ stamp[20] = (IF t.offset < 0 THEN "-" ELSE "+")
            /\ stamp[23] = ":"
            /\ 60 * NumberOf(SubSeq(stamp, 21, 22))
                 + NumberOf(SubSeq(stamp, 24, 25))
               = (IF t.offset < 0 THEN 0 - t.offset ELSE t.offset)

\* C13: UploadDump makes one PutObject call, to the configured bucket, with
\* the key applicationName "/" RFC3339(now) ".sql" and with the bytes of the
\* file map's entry dump.sql as payload (no bytes when the map has no such
\* entry); shop at 2023-01-01T00:00:00Z gives shop/2023-01-01T00:00:00Z.sql.
C13_ObjectKeyAndPayload ==
    object.done =>
        /\ Len(object.puts) = 1
        /\ LET put == object.puts[1]
               n == Len(upload.appName)
           IN  /\ put.bucket = upload.bucket
               /\ SubSeq(put.key, 1, n) = upload.appName
               /\ put.key[n + 1] = "/"
               /\ IsRFC3339Of(SubSeq(put.key, n + 2, Len(put.key) - 4),
                              upload.clock)
               /\ SubSeq(put.key, Len(put.key) - 3, Len(put.key))
                    = <<".", "s", "q", "l">>
               /\ DumpName \in DOMAIN upload.fileMap =>
                     put.payload = upload.fileMap[DumpName]
               /\ DumpName \notin DOMAIN upload.fileMap => put.payload = <<>>
               /\ (/\ upload.appName = <<"s", "h", "o", "p">>
                   /\ upload.clock = [year |-> 2023, month |-> 1, day |-> 1,
                                      hour |-> 0, minute |-> 0, second |-> 0,
                                      nsec |-> 0, offset |-> 0]) =>
                     put.key = <<"s", "h", "o", "p", "/", "2", "0", "2", "3",
                                 "-", "0", "1", "-", "0", "1", "T", "0", "0",
                                 ":", "0", "0", ":", "0", "0", "Z", ".", "s",
                                 "q", "l">>

\* C13, witness: shop at 2023-01-01T00:00:00Z with a file map that holds
\* dump.sql with one byte and another file: the put carries that byte.
C13_Witness ==
    /\ object.done
    /\ upload.appName = <<"s", "h", "o", "p">>
    /\ upload.clock = [year |-> 2023, month |-> 1, day |-> 1, hour |-> 0,
                       minute |-> 0, second |-> 0, nsec |-> 0, offset |-> 0]
    /\ DOMAIN upload.fileMap = {DumpName, <<"x">>}
    /\ upload.fileMap[DumpName] = <<1>> /\ upload.fileMap[<<"x">>] = <<0>>
    /\ object.puts[1].payload = <<1>>

\* In one-shot mode a Scan starts only by Do's call of Scan, on the main
\* goroutine.
OneShotScanStartsOnlyFromDo ==
    mode = "do" =>
        \A s \in Scans :
            (scan[s].pc = "idle" /\ scan'[s].pc # "idle") =>
                s = 1 /\ mpc = "dispatch" /\ mpc' = "scan"

\* C14: in one-shot mode the dispatcher is never started and nothing is
\* registered with it; Do calls Scan once, no other Scan ever starts, and
\* when that Scan has returned the process ends.
C14_OneShotRunsScanOnce ==
    /\ [](mode = "do" =>
            /\ ~cronRunning /\ ~registered
            /\ \A s \in Scans : s # 1 => scan[s].pc = "idle"
            /\ mpc \in {"scan", "returned"} => scan[1].pc # "idle"
            /\ proc = "returned" => scan[1].pc = "end")
    /\ [][OneShotScanStartsOnlyFromDo]_vars
    /\ (mode = "do" /\ scan[1].pc = "end") ~> ~Alive

\* C14, witness: one-shot mode, the Scan backed a container up and
\* returned, and the process ended by Do's return.
C14_Witness ==
    /\ mode = "do" /\ proc = "returned" /\ scan[1].pc = "end"
    /\ Len(scan[1].attempted) = 1 /\ scan[1].uploaded # {}

\* A Scan that has started and not returned.
InProgress(s) == scan[s].pc \notin {"idle", "end", "panic"}

\* C15: a schedule firing is never held back by a Scan that is still
\* running: while the dispatcher runs with the job registered, the next
\* Scan can start whatever the Scans before it are doing, so two Scans are
\* in progress at the same time.
C15_FiringNotHeldByRunningScan ==
    \A s \in Scans :
        (/\ Alive /\ Dispatching /\ scan[s].pc = "idle"
         /\ \A r \in Scans : r < s => scan[r].pc # "idle")
        => ENABLED CronFire(s)

\* C15, witness: two Scans in progress at the same time, both waiting for
\* a dump command in the same container.
C15_Witness ==
    \E s, r \in Scans :
        /\ s # r /\ InProgress(s) /\ InProgress(r)
        /\ scan[s].pc = "wait" /\ scan[r].pc = "wait" /\ Cur(s) = Cur(r)

\* C20 (as claimed): when the wait of a backup attempt was ended by the
\* signal of a poll that saw the dump command finished, the file the
\* attempt copied out had been written by that command alone: no other
\* dump command in the same container was writing the file when the
\* attempt's command started, and none started before the copy-out.
C20_CopiedDumpIsOwn ==
    \A s \in Scans :
        (scan[s].waitEnd = "fin" /\ scan[s].reader = "stream")
        => poll[s][K(s)].alone

\* C16: after the first interrupt nothing in Run waits for a Scan: the
\* receive on done, the stop of the dispatcher and the return ("Stopped
\* gracefully") can each be taken whatever the Scans are doing, so Run
\* returns while a Scan the dispatcher started is inside its pipeline.
C16_StopDoesNotWaitForScan ==
    /\ (Alive /\ hpc = "send_done" /\ mpc = "recv_done") => ENABLED HandlerSendDone
    /\ (Alive /\ mpc = "cron_stop") => ENABLED RunCronStop
    /\ (Alive /\ mpc = "stopped") => ENABLED RunReturn

\* C16, witness: Run has returned after an interrupt while a Scan started
\* by the dispatcher is waiting for its dump command.
C16_Witness ==
    /\ mode = "run" /\ nsig >= 1 /\ mpc = "returned" /\ ~cronRunning
    /\ \E s \in Scans : scan[s].pc = "wait" /\ poll[s][K(s)].exec = "running"

\* The operations of one backup attempt, in the order of BackupContainer,
\* DumpData and UploadDump.
FullOrder == <<"names", "create", "start", "wait", "copy", "decode", "put">>

\* C17: the operations issued in a backup attempt are always a prefix of
\* name resolution, exec create, exec start, wait, copy-out, decode, put
\* (so each is issued at most once and none is retried); the copy-out is
\* issued only when the wait has ended, by a signal or by the timeout, and
\* decode and put only when the copy-out has returned a stream.
C17_PipelineOrder ==
    \A s \in Scans :
        /\ IsPrefix(scan[s].ops, FullOrder)
        /\ (scan[s].pc = "copy" \/ "copy" \in Range(scan[s].ops)) =>
              /\ scan[s].waitEnd \in {"fin", "err", "timeout"}
              /\ "wait" \in Range(scan[s].ops)
        /\ (scan[s].pc \in {"decode", "put"}
            \/ "decode" \in Range(scan[s].ops)
            \/ "put" \in Range(scan[s].ops)) =>
              /\ scan[s].reader = "stream"
              /\ "copy" \in Range(scan[s].ops)

\* C17, witness: an attempt went through all seven operations, after
\* another attempt of the same Scan.
C17_Witness ==
    \E s \in Scans : scan[s].ops = FullOrder /\ K(s) = 2

\* C19 (as claimed): a polling goroutine is never blocked for good in a
\* send on its channel c: whenever it is in a send that found the buffer
\* full, the caller of waitForExecToEnd is still in its select and will
\* receive (c has no other receiver).
C19_NoPollerBlockedForGood ==
    \A s \in Scans, k \in Containers :
        (poll[s][k].pc \in {"send_err", "send_fin"} /\ Len(poll[s][k].ch) >= 1)
        => (scan[s].pc = "wait" /\ K(s) = k)

\* C18 (as claimed): in the exec-attach variant, after a failed
\* ContainerExecAttach DumpData returns a failure, BackupContainer returns
\* to Scan's loop and UploadDump is not called with the empty response.
C18_AttachErrorIsFailure ==
    \A s \in Scans :
        "attach_failed" \in Range(scan[s].ops) =>
            /\ scan[s].dumpErr = "attach"
            /\ scan[s].pc \in {"loop", "end"}
            /\ "upload" \notin Range(scan[s].ops)

====
